---- MODULE Spec2Model ----
(***************************************************************************)
(* A model of backend/mcp_server.py: the dependency flags set while the    *)
(* module is loaded, the capability record derived from them when the      *)
(* server is constructed, the server's asynchronous operations (split at   *)
(* their await points) and the process entry point main().                 *)
(***************************************************************************)
EXTENDS Integers, Sequences, FiniteSets, TLC

VARIABLES
    HAS,            \* the module-level HAS_* flags, by dependency
    capabilities,   \* self.capabilities (NoCaps before __init__ has run)
    session_id,     \* self.session_id
    start_time,     \* self.start_time
    meta,           \* environment: the package metadata version() reads
    files,          \* environment: the paths os.path.exists() finds
    calls,          \* the calls of the server's operations, by call id
    mainpc,         \* main(): the position of the entry point
    log,            \* the records written to the logger, in order
    exit            \* how asyncio.run(main()) ended and what ended it

vars == <<HAS, capabilities, session_id, start_time, meta, files, calls,
          mainpc, log, exit>>

server == <<HAS, capabilities, session_id, start_time>>

-----------------------------------------------------------------------------
(* Bounds of the model. *)

\* at most this many flags differ from an all-absent or an all-present load
MaxPresent == 4
\* the longest package list given to install_missing_packages
MaxLen == 2
\* at most this many distributions have metadata that is absent or broken
\* in the runs that start from an otherwise complete environment
MaxUnresolved == 1
\* the call slots; the runs of one call at a time use the first
CallIds == {1, 2}

SoloCalls == {1}

\* the process while main() runs
Running == [status |-> "running", cause |-> "none"]

-----------------------------------------------------------------------------
(* Python dictionaries are functions; d[k] = v adds or overwrites a key. *)

EmptyDict == <<>>

Put(d, k, v) == [x \in (DOMAIN d) \cup {k} |-> IF x = k THEN v ELSE d[x]]

Range(s) == {s[i] : i \in DOMAIN s}

-----------------------------------------------------------------------------
(* The optional imports: one HAS_* flag per try/except ImportError block. *)

Deps == {"PSUTIL", "REQUESTS", "NUMPY", "GPUTIL", "QUANTUMRANDOM", "QISKIT",
         "MATPLOTLIB", "OPENCV", "TORCH", "TENSORFLOW", "PANDAS", "SCIPY",
         "SKLEARN", "JOBLIB", "PICKLE", "JSONLINES", "TOML", "YAML",
         "DISTUTILS", "VIRTUALENV", "CONDA", "POETRY", "PIPENV", "PIPDEPTREE",
         "SAFETY", "BANDIT", "PYLINT", "BLACK", "ISORT", "FLAKE8",
         "PROFILING", "MEMORY_PROFILER", "LINE_PROFILER"}

\* the value of capabilities before the constructor has run
NoCaps == [unset |-> TRUE]

\* A bug the table could have: machine_learning with OR in place of AND.
DetectCapabilitiesOrBug(has) ==
    [gpu_monitoring     |-> has["GPUTIL"] /\ has["PSUTIL"],
     quantum_random     |-> has["QUANTUMRANDOM"],
     quantum_computing  |-> has["QISKIT"],
     image_processing   |-> has["OPENCV"],
     machine_learning   |-> has["SKLEARN"] \/ has["NUMPY"],
     deep_learning      |-> has["TORCH"] \/ has["TENSORFLOW"],
     data_analysis      |-> has["PANDAS"] /\ has["NUMPY"],
     visualization      |-> has["MATPLOTLIB"],
     profiling          |-> has["PROFILING"] \/ has["MEMORY_PROFILER"]
                              \/ has["LINE_PROFILER"],
     code_quality       |-> has["PYLINT"] \/ has["BLACK"] \/ has["ISORT"]
                              \/ has["FLAKE8"],
     package_management |-> has["POETRY"] \/ has["PIPENV"] \/ has["PIPDEPTREE"]]

\* MCPServer._detect_capabilities
DetectCapabilities(has) ==
    [gpu_monitoring     |-> has["GPUTIL"] /\ has["PSUTIL"],
     quantum_random     |-> has["QUANTUMRANDOM"],
     quantum_computing  |-> has["QISKIT"],
     image_processing   |-> has["OPENCV"],
     machine_learning   |-> has["SKLEARN"] /\ has["NUMPY"],
     deep_learning      |-> has["TORCH"] \/ has["TENSORFLOW"],
     data_analysis      |-> has["PANDAS"] /\ has["NUMPY"],
     visualization      |-> has["MATPLOTLIB"],
     profiling          |-> has["PROFILING"] \/ has["MEMORY_PROFILER"]
                              \/ has["LINE_PROFILER"],
     code_quality       |-> has["PYLINT"] \/ has["BLACK"] \/ has["ISORT"]
                              \/ has["FLAKE8"],
     package_management |-> has["POETRY"] \/ has["PIPENV"] \/ has["PIPDEPTREE"]]

\* A bug the helper could have: the test of quantum_computing left out.
RecommendationsSkipBug(caps) ==
    LET r1  == IF ~caps.gpu_monitoring
               THEN Put(EmptyDict, "GPU Monitoring", <<"GPUtil", "psutil">>)
               ELSE EmptyDict
        r2  == IF ~caps.quantum_random
               THEN Put(r1, "Quantum Random", <<"quantumrandom">>) ELSE r1
        r4  == IF ~caps.image_processing
               THEN Put(r2, "Image Processing", <<"opencv-python", "Pillow">>)
               ELSE r2
        r5  == IF ~caps.machine_learning
               THEN Put(r4, "Machine Learning",
                        <<"scikit-learn", "numpy", "pandas">>) ELSE r4
        r6  == IF ~caps.deep_learning
               THEN Put(r5, "Deep Learning", <<"torch", "tensorflow">>) ELSE r5
        r7  == IF ~caps.data_analysis
               THEN Put(r6, "Data Analysis", <<"pandas", "numpy", "scipy">>)
               ELSE r6
        r8  == IF ~caps.visualization
               THEN Put(r7, "Visualization",
                        <<"matplotlib", "seaborn", "plotly">>) ELSE r7
        r9  == IF ~caps.profiling
               THEN Put(r8, "Profiling",
                        <<"memory-profiler", "line-profiler", "py-spy">>)
               ELSE r8
        r10 == IF ~caps.code_quality
               THEN Put(r9, "Code Quality",
                        <<"pylint", "black", "isort", "flake8", "bandit">>)
               ELSE r9
        r11 == IF ~caps.package_management
               THEN Put(r10, "Package Management",
                        <<"poetry", "pipenv", "pipdeptree">>) ELSE r10
    IN  r11

\* MCPServer.get_missing_packages_recommendations
Recommendations(caps) ==
    LET r1  == IF ~caps.gpu_monitoring
               THEN Put(EmptyDict, "GPU Monitoring", <<"GPUtil", "psutil">>)
               ELSE EmptyDict
        r2  == IF ~caps.quantum_random
               THEN Put(r1, "Quantum Random", <<"quantumrandom">>) ELSE r1
        r3  == IF ~caps.quantum_computing
               THEN Put(r2, "Quantum Computing", <<"qiskit", "qiskit-aer">>)
               ELSE r2
        r4  == IF ~caps.image_processing
               THEN Put(r3, "Image Processing", <<"opencv-python", "Pillow">>)
               ELSE r3
        r5  == IF ~caps.machine_learning
               THEN Put(r4, "Machine Learning",
                        <<"scikit-learn", "numpy", "pandas">>) ELSE r4
        r6  == IF ~caps.deep_learning
               THEN Put(r5, "Deep Learning", <<"torch", "tensorflow">>) ELSE r5
        r7  == IF ~caps.data_analysis
               THEN Put(r6, "Data Analysis", <<"pandas", "numpy", "scipy">>)
               ELSE r6
        r8  == IF ~caps.visualization
               THEN Put(r7, "Visualization",
                        <<"matplotlib", "seaborn", "plotly">>) ELSE r7
        r9  == IF ~caps.profiling
               THEN Put(r8, "Profiling",
                        <<"memory-profiler", "line-profiler", "py-spy">>)
               ELSE r8
        r10 == IF ~caps.code_quality
               THEN Put(r9, "Code Quality",
                        <<"pylint", "black", "isort", "flake8", "bandit">>)
               ELSE r9
        r11 == IF ~caps.package_management
               THEN Put(r10, "Package Management",
                        <<"poetry", "pipenv", "pipdeptree">>) ELSE r10
    IN  r11

-----------------------------------------------------------------------------
(* The environment the operations read: package metadata, files, children. *)

\* packages_to_check of get_system_info: <<distribution name, flag>>, in order
packages_to_check ==
    << <<"psutil", "PSUTIL">>, <<"requests", "REQUESTS">>,
       <<"numpy", "NUMPY">>, <<"GPUtil", "GPUTIL">>,
       <<"quantumrandom", "QUANTUMRANDOM">>, <<"qiskit", "QISKIT">>,
       <<"matplotlib", "MATPLOTLIB">>, <<"opencv-python", "OPENCV">>,
       <<"torch", "TORCH">>, <<"tensorflow", "TENSORFLOW">>,
       <<"pandas", "PANDAS">>, <<"scipy", "SCIPY">>,
       <<"scikit-learn", "SKLEARN">>, <<"joblib", "JOBLIB">>,
       <<"jsonlines", "JSONLINES">>, <<"toml", "TOML">>,
       <<"PyYAML", "YAML">>, <<"virtualenv", "VIRTUALENV">>,
       <<"conda", "CONDA">>, <<"poetry", "POETRY">>,
       <<"pipenv", "PIPENV">>, <<"pipdeptree", "PIPDEPTREE">>,
       <<"safety", "SAFETY">>, <<"bandit", "BANDIT">>,
       <<"pylint", "PYLINT">>, <<"black", "BLACK">>,
       <<"isort", "ISORT">>, <<"flake8", "FLAKE8">>,
       <<"profiling", "PROFILING">>, <<"memory-profiler", "MEMORY_PROFILER">>,
       <<"line-profiler", "LINE_PROFILER">> >>

\* the names a caller asks install_missing_packages to install
InstallNames == {"numpy", "seaborn"}

PkgNames == {packages_to_check[i][1] : i \in DOMAIN packages_to_check}
                \cup InstallNames

\* A distribution's metadata is absent, installed, or installed but broken
\* (a dist-info directory whose METADATA is missing or has no Version field).
MetaStates == {"absent", "installed", "broken"}

\* importlib.metadata.version(name): the version string, PackageNotFoundError,
\* or another exception raised while the metadata is read (here the KeyError
\* of a missing Version field; value is str(e)).
version(m, name) ==
    CASE m[name] = "installed" -> [kind |-> "ok", value |-> "1.0"]
      [] m[name] = "absent"    -> [kind |-> "PackageNotFoundError",
                                   value |-> "No package metadata was found for "
                                             \o name]
      [] OTHER                 -> [kind |-> "Exception",
                                   value |-> "'Version'"]

\* the paths callers pass; files holds those that exist
Paths == {"a.py", "missing.py"}

\* asyncio.create_subprocess_exec: the child starts, or the call raises
\* (no such binary, permission denied); the value is str(e)
SpawnErrors == {"[Errno 2] No such file or directory"}

SpawnOutcomes == {"ok"} \cup SpawnErrors

\* what a child writes to a pipe, as bytes: nothing, b"boom", b"\xff"
Streams == {<<>>, <<98, 111, 111, 109>>, <<255>>}

ExitCodes == {0, 1}

\* process.communicate() and process.returncode of a finished child
ChildResults ==
    [returncode : ExitCodes, stdout : Streams, stderr : Streams]

\* str(e) of the UnicodeDecodeError bytes.decode() raises
DecodeError == "'utf-8' codec can't decode byte 0xff in position 0: invalid start byte"

Chr(b) ==
    CASE b = 98  -> "b"
      [] b = 109 -> "m"
      [] b = 111 -> "o"
      [] OTHER   -> "?"

RECURSIVE DecodeFrom(_, _)
DecodeFrom(bytes, i) ==
    IF i > Len(bytes) THEN ""
    ELSE Chr(bytes[i]) \o DecodeFrom(bytes, i + 1)

\* bytes.decode(): strict UTF-8.  A byte below 128 is one character; of the
\* bytes above, the model's streams hold only 0xff, which starts no sequence.
decode(bytes) ==
    IF \E i \in DOMAIN bytes : bytes[i] >= 128
    THEN [ok |-> FALSE, text |-> DecodeError]
    ELSE [ok |-> TRUE, text |-> DecodeFrom(bytes, 1)]

-----------------------------------------------------------------------------
(* A call of one of the server's operations.  A call runs from one await to *)
(* the next in one step: pc "spawn" awaits create_subprocess_exec, pc       *)
(* "communicate" awaits process.communicate().                              *)

\* meta0 is the package metadata as install_missing_packages found it when
\* the call began; no operation reads it.
IdleCall ==
    [op |-> "idle", pc |-> "idle", arg |-> <<>>, i |-> 0,
     results |-> EmptyDict, spawned |-> <<>>, hist |-> <<>>, meta0 |-> <<>>]

\* run_code_quality_check: the tools in the order of its if-blocks, each with
\* its flag, its key in results["checks"] and the arguments before the path
QualityTools ==
    << [key |-> "pylint", dep |-> "PYLINT", argv |-> <<"pylint">>],
       [key |-> "flake8", dep |-> "FLAKE8", argv |-> <<"flake8">>],
       [key |-> "bandit", dep |-> "BANDIT", argv |-> <<"bandit", "-f", "json">>] >>

\* format_code: the same for results["formatters"]
FormatTools ==
    << [key |-> "black", dep |-> "BLACK",
        argv |-> <<"black", "--check", "--diff">>],
       [key |-> "isort", dep |-> "ISORT",
        argv |-> <<"isort", "--check-only", "--diff">>] >>

ToolsOf(op) == IF op = "quality" THEN QualityTools ELSE FormatTools

SectionOf(op) == IF op = "quality" THEN "checks" ELSE "formatters"

\* A bug the guards could have: every tool gated by the derived code_quality
\* capability instead of its own flag.
ToolEnabledByCapability(has, tool) ==
    has["PYLINT"] \/ has["BLACK"] \/ has["ISORT"] \/ has["FLAKE8"]

\* the guard of a tool's block: if HAS_PYLINT: ... (its own flag, nothing else)
ToolEnabled(has, tool) == has[tool.dep]

\* the first tool after position i whose block is entered; 0 when none is left
RECURSIVE NextTool(_, _, _)
NextTool(has, tools, i) ==
    IF i >= Len(tools) THEN 0
    ELSE IF ToolEnabled(has, tools[i + 1]) THEN i + 1
    ELSE NextTool(has, tools, i + 1)

\* A bug the precondition could have: the tools run although the path is missing.
PathMissingNever(fs, path) == FALSE

\* if not os.path.exists(file_path)
PathMissing(fs, path) == path \notin fs

\* the entry written for a tool whose child has finished: the three fields,
\* or, when stdout.decode() or stderr.decode() raises inside the try block,
\* the except block's {"error": str(e)}
ToolEntry(child) ==
    LET out == decode(child.stdout)
        err == decode(child.stderr)
    IN  IF ~out.ok THEN [error |-> out.text]
        ELSE IF ~err.ok THEN [error |-> err.text]
        ELSE [exit_code |-> child.returncode,
              output |-> out.text, errors |-> err.text]

\* results[section][key] = entry
PutEntry(results, section, key, entry) ==
    [results EXCEPT ![section] = Put(results[section], key, entry)]

\* From tool position i on: enter the next enabled tool's block and call
\* create_subprocess_exec (up to its await), or reach the return statement.
ToolAdvance(call, i) ==
    LET tools == ToolsOf(call.op)
        n     == NextTool(HAS, tools, i)
    IN  IF n = 0
        THEN [call EXCEPT !.pc = "done", !.i = 0]
        ELSE [call EXCEPT !.pc = "spawn", !.i = n,
                          !.spawned = Append(@, tools[n].argv \o <<call.arg>>)]

\* run_code_quality_check(path) and format_code(path), up to the first await
\* or, for a missing path or no enabled tool, to the return
CallTool(c, op, path) ==
    /\ calls[c].op = "idle"
    /\ capabilities # NoCaps
    /\ LET r0   == Put(Put(EmptyDict, "file", path), SectionOf(op), EmptyDict)
           call == [IdleCall EXCEPT !.op = op, !.arg = path, !.results = r0]
       IN  calls' = [calls EXCEPT ![c] =
                IF PathMissing(files, path)
                THEN [call EXCEPT !.pc = "done",
                                  !.results = Put(r0, "error", "File not found")]
                ELSE ToolAdvance(call, 0)]
    /\ UNCHANGED <<server, meta, files, mainpc, log, exit>>

\* A bug the operations could have: the children run under a lock of the
\* server, so that a tool is launched only while no other call has a child
\* running.
ToolSpawnedUnderLock(c) ==
    /\ calls[c].op \in {"quality", "format"}
    /\ calls[c].pc = "spawn"
    /\ \A d \in CallIds \ {c} : calls[d].pc # "communicate"
    /\ \E o \in SpawnOutcomes :
        LET call == calls[c]
            tool == ToolsOf(call.op)[call.i]
        IN  calls' = [calls EXCEPT ![c] =
                IF o = "ok"
                THEN [call EXCEPT !.pc = "communicate"]
                ELSE ToolAdvance(
                        [call EXCEPT
                            !.results = PutEntry(@, SectionOf(call.op), tool.key,
                                                 [error |-> o]),
                            !.hist = Append(@, [key |-> tool.key, spawn |-> o,
                                                child |-> "none"])],
                        call.i)]
    /\ UNCHANGED <<server, meta, files, mainpc, log, exit>>

\* await asyncio.create_subprocess_exec(...) of a tool completes or raises
ToolSpawned(c) ==
    /\ calls[c].op \in {"quality", "format"}
    /\ calls[c].pc = "spawn"
    /\ \E o \in SpawnOutcomes :
        LET call == calls[c]
            tool == ToolsOf(call.op)[call.i]
        IN  calls' = [calls EXCEPT ![c] =
                IF o = "ok"
                THEN [call EXCEPT !.pc = "communicate"]
                ELSE ToolAdvance(
                        [call EXCEPT
                            !.results = PutEntry(@, SectionOf(call.op), tool.key,
                                                 [error |-> o]),
                            !.hist = Append(@, [key |-> tool.key, spawn |-> o,
                                                child |-> "none"])],
                        call.i)]
    /\ UNCHANGED <<server, meta, files, mainpc, log, exit>>

\* await process.communicate() of a tool completes
ToolFinished(c) ==
    /\ calls[c].op \in {"quality", "format"}
    /\ calls[c].pc = "communicate"
    /\ \E child \in ChildResults :
        LET call == calls[c]
            tool == ToolsOf(call.op)[call.i]
        IN  calls' = [calls EXCEPT ![c] =
                ToolAdvance(
                    [call EXCEPT
                        !.results = PutEntry(@, SectionOf(call.op), tool.key,
                                             ToolEntry(child)),
                        !.hist = Append(@, [key |-> tool.key, spawn |-> "ok",
                                            child |-> child])],
                    call.i)]
    /\ UNCHANGED <<server, meta, files, mainpc, log, exit>>

\* the load of the module: flags that differ from an all-absent or an
\* all-present load in the dependencies of S only
FlagsOver(S) ==
    {[d \in Deps |-> IF d \in S THEN f[d] ELSE b] :
        f \in [S -> BOOLEAN], b \in BOOLEAN}

ToolDeps == {"PYLINT", "FLAKE8", "BANDIT", "BLACK", "ISORT"}

InitServer(flagSets) ==
    /\ HAS \in flagSets
    /\ capabilities = DetectCapabilities(HAS)
    /\ session_id = "uuid-1"
    /\ start_time = 0
    /\ calls = [c \in CallIds |-> IdleCall]
    /\ mainpc = "none"
    /\ log = <<>>
    /\ exit = Running

AbsentMeta == [n \in PkgNames |-> "absent"]

InitTools ==
    /\ InitServer(FlagsOver(ToolDeps))
    /\ meta = AbsentMeta
    /\ files = {"a.py"}

NextTools ==
    \/ \E c \in SoloCalls, op \in {"quality", "format"}, path \in Paths :
            CallTool(c, op, path)
    \/ \E c \in SoloCalls : ToolSpawned(c)
    \/ \E c \in SoloCalls : ToolFinished(c)

SpecTools == InitTools /\ [][NextTools]_vars

-----------------------------------------------------------------------------
(* install_missing_packages *)

\* a record handed to the module's logger (message without its variable tail
\* where the tail plays no part)
LogRecord(level, msg) == [level |-> level, msg |-> msg]

\* the child of a package: sys.executable -m pip install <package>
PipArgv(package) == <<"python", "-m", "pip", "install", package>>

\* What is recorded for a package whose installer has finished.
\* stderr.decode() raising lands in the outer except block of the iteration.
InstallOutcome(child) ==
    IF child.returncode = 0 THEN "installed"
    ELSE LET err == decode(child.stderr)
         IN  IF err.ok THEN "failed: " \o err.text
             ELSE "error: " \o err.text

\* What the loop logs for a package it has settled (h is the package's entry
\* of the call's history, m the metadata its lookup read): nothing for one
\* already installed, logger.info for an installer that exited 0, and
\* logger.error for a failed installer or for an exception of the iteration.
InstallRecord(h, m) ==
    CASE h.lookup = "ok" -> <<>>
      [] h.lookup = "Exception" ->
            <<LogRecord("ERROR", "Error installing " \o h.pkg \o ": "
                                    \o version(m, h.pkg).value)>>
      [] h.spawn # "ok" ->
            <<LogRecord("ERROR", "Error installing " \o h.pkg \o ": " \o h.spawn)>>
      [] h.child.returncode = 0 ->
            <<LogRecord("INFO", "Successfully installed " \o h.pkg)>>
      [] OTHER ->
            LET err == decode(h.child.stderr)
            IN  IF err.ok
                THEN <<LogRecord("ERROR", "Failed to install " \o h.pkg \o ": "
                                            \o err.text)>>
                ELSE <<LogRecord("ERROR", "Error installing " \o h.pkg \o ": "
                                            \o err.text)>>

\* the records of the packages settled from history position k on
RECURSIVE InstallRecords(_, _, _)
InstallRecords(hist, k, m) ==
    IF k > Len(hist) THEN <<>>
    ELSE InstallRecord(hist[k], m) \o InstallRecords(hist, k + 1, m)

\* A bug the loop could have: the try block around the whole loop, so that
\* the first lookup that raises is recorded and ends the loop.
RECURSIVE InstallAdvanceStopsOnError(_, _, _)
InstallAdvanceStopsOnError(call, i, m) ==
    IF i >= Len(call.arg) THEN [call EXCEPT !.pc = "done", !.i = 0]
    ELSE LET package == call.arg[i + 1]
             v       == version(m, package)
         IN  CASE v.kind = "ok" ->
                    InstallAdvanceStopsOnError(
                        [call EXCEPT
                            !.results = Put(@, package, "already_installed"),
                            !.hist = Append(@, [pkg |-> package,
                                                lookup |-> v.kind,
                                                spawn |-> "none",
                                                child |-> "none"])],
                        i + 1, m)
               [] v.kind = "PackageNotFoundError" ->
                    [call EXCEPT !.pc = "spawn", !.i = i + 1,
                                 !.spawned = Append(@, PipArgv(package))]
               [] OTHER ->
                    [call EXCEPT
                        !.pc = "done", !.i = 0,
                        !.results = Put(@, package, "error: " \o v.value),
                        !.hist = Append(@, [pkg |-> package, lookup |-> v.kind,
                                            spawn |-> "none", child |-> "none"])]

\* A bug the loop could have: pip is run without the lookup of the installed
\* version.
InstallAdvanceNoLookup(call, i, m) ==
    IF i >= Len(call.arg) THEN [call EXCEPT !.pc = "done", !.i = 0]
    ELSE [call EXCEPT !.pc = "spawn", !.i = i + 1,
                      !.spawned = Append(@, PipArgv(call.arg[i + 1]))]

\* The loop of install_missing_packages from list position i on, up to the
\* next await or the return: a package whose version resolves is recorded
\* "already_installed" (continue), one whose lookup raises anything but
\* PackageNotFoundError is recorded by the outer except block, and for one
\* that is not found create_subprocess_exec is called.
RECURSIVE InstallAdvance(_, _, _)
InstallAdvance(call, i, m) ==
    IF i >= Len(call.arg) THEN [call EXCEPT !.pc = "done", !.i = 0]
    ELSE LET package == call.arg[i + 1]
             v       == version(m, package)
         IN  CASE v.kind = "ok" ->
                    InstallAdvance(
                        [call EXCEPT
                            !.results = Put(@, package, "already_installed"),
                            !.hist = Append(@, [pkg |-> package,
                                                lookup |-> v.kind,
                                                spawn |-> "none",
                                                child |-> "none"])],
                        i + 1, m)
               [] v.kind = "PackageNotFoundError" ->
                    [call EXCEPT !.pc = "spawn", !.i = i + 1,
                                 !.spawned = Append(@, PipArgv(package))]
               [] OTHER ->
                    InstallAdvance(
                        [call EXCEPT
                            !.results = Put(@, package, "error: " \o v.value),
                            !.hist = Append(@, [pkg |-> package,
                                                lookup |-> v.kind,
                                                spawn |-> "none",
                                                child |-> "none"])],
                        i + 1, m)

\* install_missing_packages(packages), up to the first await or the return
CallInstall(c, packages) ==
    /\ calls[c].op = "idle"
    /\ capabilities # NoCaps
    /\ LET new == InstallAdvance([IdleCall EXCEPT !.op = "install",
                                                  !.arg = packages,
                                                  !.meta0 = meta],
                                  0, meta)
       IN  /\ calls' = [calls EXCEPT ![c] = new]
           /\ log' = log \o InstallRecords(new.hist, 1, meta)
    /\ UNCHANGED <<server, meta, files, mainpc, exit>>

\* await asyncio.create_subprocess_exec(... "pip", "install", package ...)
\* completes or raises
InstallSpawned(c) ==
    /\ calls[c].op = "install"
    /\ calls[c].pc = "spawn"
    /\ \E o \in SpawnOutcomes :
        LET call    == calls[c]
            package == call.arg[call.i]
            new     ==
                IF o = "ok"
                THEN [call EXCEPT !.pc = "communicate"]
                ELSE InstallAdvance(
                        [call EXCEPT
                            !.results = Put(@, package, "error: " \o o),
                            !.hist = Append(@, [pkg |-> package,
                                                lookup |-> "PackageNotFoundError",
                                                spawn |-> o, child |-> "none"])],
                        call.i, meta)
        IN  /\ calls' = [calls EXCEPT ![c] = new]
            /\ log' = log \o InstallRecords(new.hist, Len(call.hist) + 1, meta)
    /\ UNCHANGED <<server, meta, files, mainpc, exit>>

\* A bug the operation could have: after an installer that exited 0 the
\* flag of the package is set and the capabilities are detected again.
InstallFinishedReprobes(c) ==
    /\ calls[c].op = "install"
    /\ calls[c].pc = "communicate"
    /\ \E child \in ChildResults :
        LET call    == calls[c]
            package == call.arg[call.i]
            m2      == IF child.returncode = 0
                       THEN [meta EXCEPT ![package] = "installed"]
                       ELSE meta
            flags   == {packages_to_check[k][2] :
                            k \in {j \in DOMAIN packages_to_check :
                                        packages_to_check[j][1] = package}}
            has2    == [d \in Deps |->
                            HAS[d] \/ (child.returncode = 0 /\ d \in flags)]
            new     ==
                    InstallAdvance(
                        [call EXCEPT
                            !.results = Put(@, package, InstallOutcome(child)),
                            !.hist = Append(@, [pkg |-> package,
                                                lookup |-> "PackageNotFoundError",
                                                spawn |-> "ok", child |-> child])],
                        call.i, m2)
        IN  /\ meta' = m2
            /\ HAS' = has2
            /\ capabilities' = DetectCapabilities(has2)
            /\ calls' = [calls EXCEPT ![c] = new]
            /\ log' = log \o InstallRecords(new.hist, Len(call.hist) + 1, m2)
    /\ UNCHANGED <<session_id, start_time, files, mainpc, exit>>

\* await process.communicate() of the installer completes.  An installer
\* that exits 0 has written the package's metadata.
InstallFinished(c) ==
    /\ calls[c].op = "install"
    /\ calls[c].pc = "communicate"
    /\ \E child \in ChildResults :
        LET call    == calls[c]
            package == call.arg[call.i]
            m2      == IF child.returncode = 0
                       THEN [meta EXCEPT ![package] = "installed"]
                       ELSE meta
            new     ==
                    InstallAdvance(
                        [call EXCEPT
                            !.results = Put(@, package, InstallOutcome(child)),
                            !.hist = Append(@, [pkg |-> package,
                                                lookup |-> "PackageNotFoundError",
                                                spawn |-> "ok", child |-> child])],
                        call.i, m2)
        IN  /\ meta' = m2
            /\ calls' = [calls EXCEPT ![c] = new]
            /\ log' = log \o InstallRecords(new.hist, Len(call.hist) + 1, m2)
    /\ UNCHANGED <<server, files, mainpc, exit>>

\* the package lists of the runs: every list over InstallNames up to MaxLen
PackageLists == UNION {[1..n -> InstallNames] : n \in 0..MaxLen}

InitInstall ==
    /\ InitServer(FlagsOver({"NUMPY"}))
    /\ meta \in {[n \in PkgNames |-> IF n \in InstallNames THEN f[n] ELSE "absent"] :
                    f \in [InstallNames -> MetaStates]}
    /\ files = {"a.py"}

NextInstall ==
    \/ \E c \in SoloCalls, packages \in PackageLists : CallInstall(c, packages)
    \/ \E c \in SoloCalls : InstallSpawned(c)
    \/ \E c \in SoloCalls : InstallFinished(c)

SpecInstall == InitInstall /\ [][NextInstall]_vars

-----------------------------------------------------------------------------
(* The constructor and get_missing_packages_recommendations *)

\* str(uuid.uuid4()): one of the identifiers the runs draw
SessionIds == {"uuid-1", "uuid-2"}

\* MCPServer.__init__: detection, the session id, the start time, two records
Construct ==
    /\ capabilities = NoCaps
    /\ capabilities' = DetectCapabilities(HAS)
    /\ session_id' \in SessionIds
    /\ start_time' = 0
    /\ log' = log \o << LogRecord("INFO", "MCP Server initialized with session ID"),
                        LogRecord("INFO", "Available capabilities") >>
    /\ UNCHANGED HAS

\* a caller constructs the server
NewServer ==
    /\ Construct
    /\ UNCHANGED <<meta, files, calls, mainpc, exit>>

\* get_missing_packages_recommendations(): no await, the call returns at once
CallRecommend(c) ==
    /\ calls[c].op = "idle"
    /\ capabilities # NoCaps
    /\ calls' = [calls EXCEPT ![c] =
            [IdleCall EXCEPT !.op = "recommend", !.pc = "done",
                             !.results = Recommendations(capabilities)]]
    /\ UNCHANGED <<server, meta, files, mainpc, log, exit>>

\* the subsets of S with at most k elements
RECURSIVE SubsetsUpTo(_, _)
SubsetsUpTo(S, k) ==
    IF k = 0 THEN {{}}
    ELSE LET prev == SubsetsUpTo(S, k - 1)
         IN  prev \cup {T \cup {x} : T \in prev, x \in S}

\* the dependencies the capability table reads
CapDeps == {"GPUTIL", "PSUTIL", "QUANTUMRANDOM", "QISKIT", "OPENCV", "SKLEARN",
            "NUMPY", "TORCH", "TENSORFLOW", "PANDAS", "MATPLOTLIB", "PROFILING",
            "MEMORY_PROFILER", "LINE_PROFILER", "PYLINT", "BLACK", "ISORT",
            "FLAKE8", "POETRY", "PIPENV", "PIPDEPTREE"}

\* the loads in which at most k of the dependencies of S are present, or at
\* most k of them absent
FlagsNear(S, k) ==
    {[d \in Deps |-> IF d \in T THEN ~b ELSE b] :
        T \in SubsetsUpTo(S, k), b \in BOOLEAN}

InitCaps ==
    /\ HAS \in FlagsNear(CapDeps, MaxPresent)
    /\ capabilities = NoCaps
    /\ session_id = "none"
    /\ start_time = 0
    /\ meta = AbsentMeta
    /\ files = {"a.py"}
    /\ calls = [c \in CallIds |-> IdleCall]
    /\ mainpc = "none"
    /\ log = <<>>
    /\ exit = Running

NextCaps ==
    \/ NewServer
    \/ \E c \in SoloCalls : CallRecommend(c)

SpecCaps == InitCaps /\ [][NextCaps]_vars

-----------------------------------------------------------------------------
(* get_system_info *)

\* the readings of psutil and GPUtil when they can be read
ResourceReadings ==
    [cpu_percent |-> 10, memory_percent |-> 50, disk_usage |-> 40,
     cpu_count |-> 4, memory_total_gb |-> 16]

GpuReadings ==
    << [id |-> 0, name |-> "gpu0", memory_used |-> 1, memory_total |-> 8,
        temperature |-> 60, load |-> 0] >>

\* lines 515-520: the loop over packages_to_check from position i on.  Only
\* PackageNotFoundError is caught; any other exception of version() leaves
\* the loop and the coroutine.
RECURSIVE InstalledPackages(_, _, _, _)
InstalledPackages(has, m, i, acc) ==
    IF i > Len(packages_to_check) THEN [raised |-> FALSE, value |-> acc]
    ELSE LET package_name == packages_to_check[i][1]
             is_available == has[packages_to_check[i][2]]
             v            == version(m, package_name)
         IN  IF ~is_available
             THEN InstalledPackages(has, m, i + 1, acc)
             ELSE CASE v.kind = "ok" ->
                        InstalledPackages(has, m, i + 1,
                                          Put(acc, package_name, v.value))
                    [] v.kind = "PackageNotFoundError" ->
                        InstalledPackages(has, m, i + 1,
                                          Put(acc, package_name, "unknown"))
                    [] OTHER -> [raised |-> TRUE, value |-> v.value]

\* get_system_info(): the SessionInfo returned, or the exception raised, and
\* the warnings logged.  resOK and gpuOK tell whether the psutil and the
\* GPUtil reads succeed.
SystemInfo(has, caps, sid, st, m, resOK, gpuOK) ==
    LET pk    == InstalledPackages(has, m, 1, EmptyDict)
        info0 == [session_id |-> sid, start_time |-> st,
                  platform |-> "platform", python_version |-> "python",
                  capabilities |-> caps, installed_packages |-> pk.value]
        info1 == IF has["PSUTIL"] /\ resOK
                 THEN Put(info0, "system_resources", ResourceReadings)
                 ELSE info0
        info2 == IF has["GPUTIL"] /\ gpuOK
                 THEN Put(info1, "gpus", GpuReadings)
                 ELSE info1
        w1    == IF has["PSUTIL"] /\ ~resOK
                 THEN <<LogRecord("WARNING", "Could not get system resources")>>
                 ELSE <<>>
        w2    == IF has["GPUTIL"] /\ ~gpuOK
                 THEN <<LogRecord("WARNING", "Could not get GPU information")>>
                 ELSE <<>>
    IN  IF pk.raised
        THEN [raised |-> TRUE, value |-> pk.value, warnings |-> <<>>]
        ELSE [raised |-> FALSE, value |-> info2, warnings |-> w1 \o w2]

\* a call of get_system_info(): it has no await that suspends, so it runs to
\* its return (pc "done") or to the exception that leaves it (pc "raised")
CallSysinfo(c) ==
    /\ calls[c].op = "idle"
    /\ capabilities # NoCaps
    /\ \E resOK \in BOOLEAN, gpuOK \in BOOLEAN :
        LET r == SystemInfo(HAS, capabilities, session_id, start_time, meta,
                            resOK, gpuOK)
        IN  /\ calls' = [calls EXCEPT ![c] =
                    [IdleCall EXCEPT
                        !.op = "sysinfo",
                        !.pc = IF r.raised THEN "raised" ELSE "done",
                        !.results = r.value,
                        !.hist = <<[resOK |-> resOK, gpuOK |-> gpuOK]>>]]
            /\ log' = log \o r.warnings
    /\ UNCHANGED <<server, meta, files, mainpc, exit>>

\* the environments in which at most k distributions are not installed
\* (absent or broken)
MetaNear(k) ==
    UNION {{[n \in PkgNames |-> IF n \in T THEN f[n] ELSE "installed"] :
                f \in [T -> {"absent", "broken"}]} :
            T \in SubsetsUpTo(PkgNames, k)}

InfoDeps == {"PSUTIL", "GPUTIL", "OPENCV"}

InitInfo ==
    /\ InitServer(FlagsOver(InfoDeps))
    /\ meta \in MetaNear(MaxUnresolved)
    /\ files = {"a.py"}

NextInfo == \E c \in SoloCalls : CallSysinfo(c)

SpecInfo == InitInfo /\ [][NextInfo]_vars

-----------------------------------------------------------------------------
(* main(), run by asyncio.run(main()) *)

\* the categories in the order the helper inserts them (a dict iterates in
\* insertion order)
CategoryOrder ==
    <<"GPU Monitoring", "Quantum Random", "Quantum Computing",
      "Image Processing", "Machine Learning", "Deep Learning", "Data Analysis",
      "Visualization", "Profiling", "Code Quality", "Package Management">>

\* ', '.join(packages)
RECURSIVE Join(_, _)
Join(packages, i) ==
    IF i > Len(packages) THEN ""
    ELSE IF i = Len(packages) THEN packages[i]
    ELSE packages[i] \o ", " \o Join(packages, i + 1)

\* lines 749-752: the header and one record per category, if there are any
RECURSIVE RecommendationLines(_, _)
RecommendationLines(rec, i) ==
    IF i > Len(CategoryOrder) THEN <<>>
    ELSE LET k == CategoryOrder[i]
         IN  (IF k \in DOMAIN rec
              THEN <<LogRecord("INFO", "  " \o k \o ": " \o Join(rec[k], 1))>>
              ELSE <<>>) \o RecommendationLines(rec, i + 1)

RecommendationLog(rec) ==
    IF rec = EmptyDict THEN <<>>
    ELSE <<LogRecord("INFO", "Missing package recommendations:")>>
            \o RecommendationLines(rec, 1)

Stopped == LogRecord("INFO", "MCP Server stopped by user")

\* the two records of the except Exception block
ErrorLog == <<LogRecord("ERROR", "MCP Server error"),
              LogRecord("ERROR", "traceback")>>

\* line 738, server = MCPServer(), which is before the try statement: the
\* constructor returns, or an error raised in it (uuid.uuid4() reads the
\* system's random source) leaves main() with no handler around it.
MainConstruct ==
    /\ mainpc = "construct"
    /\ \/ /\ Construct
          /\ mainpc' = "sysinfo"
          /\ UNCHANGED <<meta, files, calls, exit>>
       \/ /\ mainpc' = "exited"
          /\ exit' = [status |-> "exception", cause |-> "construct_error"]
          /\ UNCHANGED <<server, meta, files, calls, log>>

\* lines 741-745: the start record, get_system_info() and its record; an
\* exception of get_system_info() is handled by the except Exception block,
\* after which main() returns.
MainSysinfo ==
    /\ mainpc = "sysinfo"
    /\ \E resOK \in BOOLEAN, gpuOK \in BOOLEAN :
        LET r     == SystemInfo(HAS, capabilities, session_id, start_time, meta,
                                resOK, gpuOK)
            start == <<LogRecord("INFO", "Starting MCP Server...")>>
        IN  IF r.raised
            THEN /\ log' = log \o start \o ErrorLog
                 /\ mainpc' = "exited"
                 /\ exit' = [status |-> "returned", cause |-> "startup_error"]
            ELSE /\ log' = log \o start \o r.warnings
                            \o <<LogRecord("INFO", "System info collected")>>
                 /\ mainpc' = "recommend"
                 /\ UNCHANGED exit
    /\ UNCHANGED <<server, meta, files, calls>>

\* lines 748-755: the recommendations and the record that the server runs
MainRecommend ==
    /\ mainpc = "recommend"
    /\ log' = log \o RecommendationLog(Recommendations(capabilities))
                  \o <<LogRecord("INFO", "MCP Server is running. Press Ctrl+C to stop.")>>
    /\ mainpc' = "idle"
    /\ UNCHANGED <<server, meta, files, calls, exit>>

\* lines 757-758: one round of while True: await asyncio.sleep(1)
MainSleep ==
    /\ mainpc = "idle"
    /\ UNCHANGED vars

\* Ctrl+C.  What reaches main() depends on the interpreter and on where the
\* signal finds it: KeyboardInterrupt raised in the body of main() (caught at
\* line 760 when inside the try statement), or, for a main() suspended in
\* asyncio.sleep, the cancellation of its task by asyncio.run:
\* CancelledError at the await, which neither except clause names, so that
\* asyncio.run ends with KeyboardInterrupt.
MainInterrupt ==
    /\ \/ /\ mainpc = "construct"
          /\ exit' = [status |-> "KeyboardInterrupt", cause |-> "interrupt"]
          /\ UNCHANGED log
       \/ /\ mainpc \in {"sysinfo", "recommend", "idle"}
          /\ log' = Append(log, Stopped)
          /\ exit' = [status |-> "returned", cause |-> "interrupt"]
       \/ /\ mainpc = "idle"
          /\ exit' = [status |-> "KeyboardInterrupt", cause |-> "interrupt"]
          /\ UNCHANGED log
    /\ mainpc' = "exited"
    /\ UNCHANGED <<server, meta, files, calls>>

InitMain ==
    /\ HAS \in FlagsOver(InfoDeps)
    /\ capabilities = NoCaps
    /\ session_id = "none"
    /\ start_time = 0
    /\ meta \in MetaNear(MaxUnresolved)
    /\ files = {"a.py"}
    /\ calls = [c \in CallIds |-> IdleCall]
    /\ mainpc = "construct"
    /\ log = <<>>
    /\ exit = Running

NextMain ==
    \/ MainConstruct
    \/ MainSysinfo
    \/ MainRecommend
    \/ MainSleep
    \/ MainInterrupt

SpecMain == InitMain /\ [][NextMain]_vars

-----------------------------------------------------------------------------
(* The program as a whole: main() and callers of the constructed server. *)

Init ==
    /\ HAS \in {f \in FlagsOver({"PYLINT", "BLACK", "PSUTIL"}) : ~f["FLAKE8"]}
    /\ capabilities = NoCaps
    /\ session_id = "none"
    /\ start_time = 0
    /\ meta \in {[n \in PkgNames |-> IF n \in InstallNames THEN f[n]
                                    ELSE "installed"] :
                    f \in [InstallNames -> MetaStates]}
    /\ files = {"a.py"}
    /\ calls = [c \in CallIds |-> IdleCall]
    /\ mainpc = "construct"
    /\ log = <<>>
    /\ exit = Running

Next ==
    \/ NextMain
    \/ NextTools
    \/ NextInstall
    \/ NextInfo
    \/ \E c \in SoloCalls : CallRecommend(c)

Spec == Init /\ [][Next]_vars

-----------------------------------------------------------------------------
(* Callers that use the server again and again: the five operations in any   *)
(* number and any order, one call at a time.                                  *)

\* the runs start no further call once the log holds this many records
MaxLog == 4

\* the caller has the value its call returned (or the exception it raised)
\* and the call is over
CallReturned(c) ==
    /\ calls[c].pc \in {"done", "raised"}
    /\ Len(log) < MaxLog
    /\ calls' = [calls EXCEPT ![c] = IdleCall]
    /\ UNCHANGED <<server, meta, files, mainpc, log, exit>>

\* the package lists of these callers
OpsLists == {<<"numpy">>, <<"seaborn", "numpy">>}

\* the loads of these runs: pandas is present, numpy, pylint and psutil are
\* present or not
OpsFlags == {[d \in Deps |-> d \in S \cup {"PANDAS"}] :
                S \in SUBSET {"NUMPY", "PYLINT", "PSUTIL"}}

InitOps ==
    /\ HAS \in OpsFlags
    /\ capabilities = NoCaps
    /\ session_id = "none"
    /\ start_time = 0
    /\ meta \in {[n \in PkgNames |-> IF n \in InstallNames THEN f[n]
                                    ELSE "installed"] :
                    f \in [InstallNames -> MetaStates]}
    /\ files = {"a.py"}
    /\ calls = [c \in CallIds |-> IdleCall]
    /\ mainpc = "none"
    /\ log = <<>>
    /\ exit = Running

NextOps ==
    \/ NewServer
    \/ \E c \in SoloCalls : CallSysinfo(c)
    \/ \E c \in SoloCalls : CallRecommend(c)
    \/ \E c \in SoloCalls, op \in {"quality", "format"}, path \in Paths :
            CallTool(c, op, path)
    \/ \E c \in SoloCalls : ToolSpawned(c)
    \/ \E c \in SoloCalls : ToolFinished(c)
    \/ \E c \in SoloCalls, packages \in OpsLists : CallInstall(c, packages)
    \/ \E c \in SoloCalls : InstallSpawned(c)
    \/ \E c \in SoloCalls : InstallFinished(c)
    \/ \E c \in SoloCalls : CallReturned(c)

SpecOps == InitOps /\ [][NextOps]_vars

-----------------------------------------------------------------------------
(* Two callers at once: calls of run_code_quality_check, format_code and      *)
(* install_missing_packages interleaved at their awaits.                      *)

\* the package lists of the two callers: the first asks for numpy, the
\* second for numpy or for seaborn and numpy
ConcLists(c) ==
    IF c = 1 THEN {<<"numpy">>} ELSE {<<"numpy">>, <<"seaborn", "numpy">>}

\* the loads of these runs: pylint present or not, nothing else
ConcFlags == {[d \in Deps |-> d \in S] : S \in {{}, {"PYLINT"}}}

InitConc ==
    /\ InitServer(ConcFlags)
    /\ meta \in {[n \in PkgNames |-> IF n \in InstallNames THEN f[n] ELSE "absent"] :
                    f \in [InstallNames -> MetaStates]}
    /\ files = {"a.py"}

NextConc ==
    \/ \E c \in CallIds, op \in {"quality", "format"}, path \in Paths :
            CallTool(c, op, path)
    \/ \E c \in CallIds : ToolSpawned(c)
    \/ \E c \in CallIds : ToolFinished(c)
    \/ \E c \in CallIds : \E packages \in ConcLists(c) : CallInstall(c, packages)
    \/ \E c \in CallIds : InstallSpawned(c)
    \/ \E c \in CallIds : InstallFinished(c)

SpecConc == InitConc /\ [][NextConc]_vars

-----------------------------------------------------------------------------
(* Claims about run_code_quality_check and format_code (SpecTools). *)

ToolCalls == {c \in CallIds : calls[c].op \in {"quality", "format"}}

DoneToolCalls == {c \in ToolCalls : calls[c].pc = "done"}

AllTools == Range(QualityTools) \cup Range(FormatTools)

\* create_subprocess_exec was called for the tool's binary in this call
Launched(call, tool) ==
    \E k \in DOMAIN call.spawned : call.spawned[k][1] = tool.argv[1]

\* C1 as stated: a call of run_code_quality_check or format_code with a path
\* that does not exist returns exactly {"file": path, "error": "File not
\* found"} and launches no subprocess.
C1_AsStated ==
    \A c \in DoneToolCalls :
        calls[c].arg \notin files =>
            /\ calls[c].results = [file |-> calls[c].arg,
                                   error |-> "File not found"]
            /\ calls[c].spawned = <<>>

\* C1 as amended: for every combination of tool flags, a call with a path
\* that does not exist returns the mapping with the keys "file" (the path),
\* "error" ("File not found") and the still empty "checks" (format_code:
\* "formatters") section, and launches no subprocess.
C1_MissingPath ==
    \A c \in DoneToolCalls :
        calls[c].arg \notin files =>
            /\ DOMAIN calls[c].results = {"file", "error", SectionOf(calls[c].op)}
            /\ calls[c].results["file"] = calls[c].arg
            /\ calls[c].results["error"] = "File not found"
            /\ calls[c].results[SectionOf(calls[c].op)] = EmptyDict
            /\ calls[c].spawned = <<>>
            /\ calls[c].hist = <<>>

\* C1's case: a call on a missing path has returned although tools of both
\* operations are available.
C1_Witness ==
    \E c \in DoneToolCalls :
        /\ calls[c].arg \notin files
        /\ HAS["PYLINT"] /\ HAS["BANDIT"] /\ HAS["BLACK"]

\* C2: in a call on an existing path a tool is launched only if its own flag
\* is true and it belongs to the operation called, a key is in the result
\* section only for such a tool, and once the call has returned every tool of
\* the operation whose flag is true has been launched and has its key.
C2_LaunchedIffFlag ==
    \A c \in ToolCalls :
        LET call    == calls[c]
            section == call.results[SectionOf(call.op)]
            mine    == Range(ToolsOf(call.op))
        IN  /\ \A t \in AllTools :
                /\ Launched(call, t) => HAS[t.dep] /\ t \in mine
                /\ t.key \in DOMAIN section => HAS[t.dep] /\ t \in mine
            /\ DOMAIN section \subseteq {t.key : t \in mine}
            /\ (call.pc = "done" /\ call.arg \in files) =>
                    \A t \in mine :
                        HAS[t.dep] => Launched(call, t) /\ t.key \in DOMAIN section

\* C2's case: a call on an existing path has returned with bandit launched
\* and present while pylint is absent and the code_quality capability is false.
C2_Witness ==
    \E c \in DoneToolCalls :
        /\ calls[c].op = "quality"
        /\ calls[c].arg \in files
        /\ HAS["BANDIT"] /\ ~HAS["PYLINT"] /\ ~capabilities.code_quality
        /\ Launched(calls[c], QualityTools[3])
        /\ DOMAIN calls[c].results["checks"] = {"bandit"}

\* C9 as stated: a tool whose child could not be launched has an entry that
\* holds only the error string; a tool whose child exited nonzero has its
\* exit code and both streams recorded; in both cases the call returns and
\* every other tool whose flag is true is launched and has its own entry.
C9_AsStated ==
    \A c \in DoneToolCalls :
        LET call    == calls[c]
            section == call.results[SectionOf(call.op)]
        IN  \A k \in DOMAIN call.hist :
                LET h == call.hist[k]
                IN  /\ h.key \in DOMAIN section
                    /\ h.spawn # "ok" => section[h.key] = [error |-> h.spawn]
                    /\ (h.spawn = "ok" /\ h.child.returncode # 0) =>
                            /\ DOMAIN section[h.key]
                                    = {"exit_code", "output", "errors"}
                            /\ section[h.key].exit_code = h.child.returncode
                    /\ \A t \in Range(ToolsOf(call.op)) :
                            (t.key # h.key /\ HAS[t.dep]) =>
                                Launched(call, t) /\ t.key \in DOMAIN section

-----------------------------------------------------------------------------
(* Claims about install_missing_packages (SpecInstall). *)

InstallCalls == {c \in CallIds : calls[c].op = "install"}

\* the characters of a stream that is text
TextOf(bytes) == DecodeFrom(bytes, 1)

\* the four forms of an outcome, over the streams and errors of the model
OutcomeForms ==
    {"already_installed", "installed"}
        \cup {"failed: " \o TextOf(b) : b \in {x \in Streams : decode(x).ok}}
        \cup {"error: " \o e :
                e \in SpawnErrors \cup {DecodeError}
                        \cup {version([n \in PkgNames |-> "broken"], p).value :
                                p \in InstallNames}}

\* C3: a call processes every name whatever the outcome of the earlier ones:
\* while it runs, every name before the current position has an outcome; it
\* never stops before the end of the list; and when it has returned the keys
\* of the mapping are exactly the requested names, each value of one of the
\* four forms.
C3_EveryNameProcessed ==
    \A c \in InstallCalls :
        LET call == calls[c]
        IN  /\ call.pc \in {"spawn", "communicate", "done"}
            /\ DOMAIN call.results \subseteq Range(call.arg)
            /\ \A k \in DOMAIN call.results : call.results[k] \in OutcomeForms
            /\ call.pc # "done" =>
                    /\ call.i \in 1..Len(call.arg)
                    /\ \A j \in 1..(call.i - 1) : call.arg[j] \in DOMAIN call.results
            /\ call.pc = "done" =>
                    /\ DOMAIN call.results = Range(call.arg)
                    /\ Len(call.hist) = Len(call.arg)

\* C3's case: a call has returned in which the first package's lookup or
\* launch failed and the second package was installed all the same.
C3_Witness ==
    \E c \in InstallCalls :
        /\ calls[c].pc = "done"
        /\ Len(calls[c].arg) = 2
        /\ calls[c].arg[1] # calls[c].arg[2]
        /\ calls[c].hist[1].lookup = "Exception"
        /\ calls[c].results[calls[c].arg[1]]
                = "error: 'Version'"
        /\ calls[c].results[calls[c].arg[2]] = "installed"

\* C4: no child is launched for a package whose installed version resolves:
\* the package of a child that is starting or running is not resolvable, the
\* launches are exactly those of the iterations whose lookup found nothing,
\* an iteration whose lookup resolved launched nothing and left
\* "already_installed", and a call with the empty list returns the empty
\* mapping with nothing launched.
C4_NoChildWhenInstalled ==
    \A c \in InstallCalls :
        LET call    == calls[c]
            pending == IF call.pc \in {"spawn", "communicate"} THEN 1 ELSE 0
        IN  /\ pending = 1 =>
                    /\ meta[call.arg[call.i]] # "installed"
                    /\ call.spawned[Len(call.spawned)] = PipArgv(call.arg[call.i])
            /\ Len(call.spawned)
                    = pending + Cardinality({k \in DOMAIN call.hist :
                                                call.hist[k].spawn # "none"})
            /\ \A k \in DOMAIN call.hist :
                    /\ call.hist[k].pkg = call.arg[k]
                    /\ call.hist[k].lookup = "ok" =>
                            /\ call.hist[k].spawn = "none"
                            /\ call.results[call.hist[k].pkg] = "already_installed"
                    /\ call.hist[k].spawn # "none" =>
                            call.hist[k].lookup = "PackageNotFoundError"
            /\ call.arg = <<>> =>
                    /\ call.pc = "done"
                    /\ call.results = EmptyDict
                    /\ call.spawned = <<>>

\* C4's case: a call has returned that found numpy installed and launched the
\* installer for seaborn only.
C4_Witness ==
    \E c \in InstallCalls :
        /\ calls[c].pc = "done"
        /\ calls[c].arg = <<"numpy", "seaborn">>
        /\ calls[c].results["numpy"] = "already_installed"
        /\ calls[c].spawned = <<PipArgv("seaborn")>>

\* the last iteration of a call for the package of iteration k
LastFor(call, k) ==
    \A j \in DOMAIN call.hist : j > k => call.hist[j].pkg # call.hist[k].pkg

\* C5 as stated: for a package that was not installed, exit code 0 gives
\* "installed", any nonzero exit code gives "failed: " and the captured
\* standard-error text, a failure to launch gives "error: " and the
\* exception text, whatever the outcomes of the other packages.
C5_AsStated ==
    \A c \in InstallCalls :
        LET call == calls[c]
        IN  \A k \in DOMAIN call.hist :
                LET h == call.hist[k]
                IN  (h.lookup = "PackageNotFoundError" /\ LastFor(call, k)) =>
                        call.results[h.pkg] =
                            IF h.spawn # "ok" THEN "error: " \o h.spawn
                            ELSE IF h.child.returncode = 0 THEN "installed"
                            ELSE "failed: " \o TextOf(h.child.stderr)

-----------------------------------------------------------------------------
(* Claims about the capability table and the recommendations (SpecCaps). *)

AllOf(S) == \A d \in S : HAS[d]

AnyOf(S) == \E d \in S : HAS[d]

\* the table of claim C7, over the flags
CapabilityTable ==
    [gpu_monitoring     |-> AllOf({"GPUTIL", "PSUTIL"}),
     machine_learning   |-> AllOf({"SKLEARN", "NUMPY"}),
     data_analysis      |-> AllOf({"PANDAS", "NUMPY"}),
     deep_learning      |-> AnyOf({"TORCH", "TENSORFLOW"}),
     profiling          |-> AnyOf({"PROFILING", "MEMORY_PROFILER", "LINE_PROFILER"}),
     code_quality       |-> AnyOf({"PYLINT", "BLACK", "ISORT", "FLAKE8"}),
     package_management |-> AnyOf({"POETRY", "PIPENV", "PIPDEPTREE"}),
     quantum_random     |-> HAS["QUANTUMRANDOM"],
     quantum_computing  |-> HAS["QISKIT"],
     image_processing   |-> HAS["OPENCV"],
     visualization      |-> HAS["MATPLOTLIB"]]

CapNames == DOMAIN CapabilityTable

\* C7: once the server is constructed its CapabilitySet is the fixed table
\* evaluated over the flags (so equal flags give equal sets), and
\* construction is possible for every combination of flags.
C7_CapabilityTable ==
    /\ capabilities # NoCaps => capabilities = CapabilityTable
    /\ capabilities = NoCaps => ENABLED NewServer

\* C7's case: a server constructed with sklearn and torch present and numpy
\* and tensorflow absent.
C7_Witness ==
    /\ capabilities # NoCaps
    /\ HAS["SKLEARN"] /\ ~HAS["NUMPY"] /\ HAS["TORCH"] /\ ~HAS["TENSORFLOW"]
    /\ ~capabilities.machine_learning
    /\ capabilities.deep_learning

\* the category the helper uses for a capability
CategoryOf ==
    [gpu_monitoring     |-> "GPU Monitoring",
     quantum_random     |-> "Quantum Random",
     quantum_computing  |-> "Quantum Computing",
     image_processing   |-> "Image Processing",
     machine_learning   |-> "Machine Learning",
     deep_learning      |-> "Deep Learning",
     data_analysis      |-> "Data Analysis",
     visualization      |-> "Visualization",
     profiling          |-> "Profiling",
     code_quality       |-> "Code Quality",
     package_management |-> "Package Management"]

RecommendCalls == {c \in CallIds : calls[c].op = "recommend"}

\* the suggestions when every capability is missing
AllSuggestions == Recommendations([c \in CapNames |-> FALSE])

RecommendResult ==
    \A c \in RecommendCalls :
        LET r == calls[c].results
        IN  /\ calls[c].pc = "done"
            /\ DOMAIN r = {CategoryOf[n] : n \in {x \in CapNames : ~capabilities[x]}}
            /\ Cardinality(DOMAIN r)
                    = Cardinality({x \in CapNames : ~capabilities[x]})
            /\ \A k \in DOMAIN r : Len(r[k]) > 0 /\ r[k] = AllSuggestions[k]
            /\ (\A x \in CapNames : capabilities[x]) => r = EmptyDict

RecommendStep ==
    \E c \in CallIds : calls[c].op = "idle" /\ calls'[c].op = "recommend"

\* C8: the mapping returned has one category for each capability that is
\* false and none for one that is true, each with its fixed non-empty list,
\* it is empty when every capability is true, and the call changes nothing
\* but its own result.
C8_Recommendations ==
    /\ []RecommendResult
    /\ [][RecommendStep =>
            UNCHANGED <<HAS, capabilities, session_id, start_time, meta,
                        files, mainpc, log, exit>>]_vars

\* C8's case: a call has returned for a server on which code_quality is the
\* one capability that is true.
C8_Witness ==
    \E c \in RecommendCalls :
        /\ calls[c].pc = "done"
        /\ capabilities.code_quality
        /\ \A x \in CapNames \ {"code_quality"} : ~capabilities[x]
        /\ DOMAIN calls[c].results
                = {CategoryOf[n] : n \in CapNames \ {"code_quality"}}

-----------------------------------------------------------------------------
(* Claims about get_system_info (SpecInfo). *)

SysinfoCalls == {c \in CallIds : calls[c].op = "sysinfo"}

\* C6 as stated: the call never fails; whatever lookup or read fails, it
\* returns a SessionInfo in which every present dependency has a version,
\* "unknown" when it could not be resolved, in which system_resources is
\* there exactly when psutil is present and its read succeeded, and gpus
\* exactly when GPUtil is present and its read succeeded.
C6_AsStated ==
    \A c \in SysinfoCalls :
        LET call == calls[c]
            info == call.results
        IN  /\ call.pc = "done"
            /\ \A i \in DOMAIN packages_to_check :
                    LET name == packages_to_check[i][1]
                        dep  == packages_to_check[i][2]
                    IN  /\ name \in DOMAIN info.installed_packages <=> HAS[dep]
                        /\ (HAS[dep] /\ meta[name] # "installed") =>
                                info.installed_packages[name] = "unknown"
            /\ "system_resources" \in DOMAIN info
                    <=> (HAS["PSUTIL"] /\ call.hist[1].resOK)
            /\ "gpus" \in DOMAIN info <=> (HAS["GPUTIL"] /\ call.hist[1].gpuOK)
            /\ info.capabilities = capabilities

-----------------------------------------------------------------------------
(* Claims about main() (SpecMain). *)

Logged(msg) == \E k \in DOMAIN log : log[k].msg = msg

\* msg1 is logged before msg2
LoggedBefore(msg1, msg2) ==
    \A k \in DOMAIN log :
        log[k].msg = msg2 => \E j \in 1..(k - 1) : log[j].msg = msg1

\* C10 as stated: detection, then the system info, then the
\* recommendations, then the idle loop; an interrupt leads to the shutdown
\* record and a clean exit; an error raised during startup, construction
\* included, is logged with its trace before the process exits.
C10_AsStated ==
    /\ mainpc \in {"sysinfo", "recommend", "idle"} => capabilities # NoCaps
    /\ LoggedBefore("Available capabilities", "System info collected")
    /\ LoggedBefore("System info collected",
                    "MCP Server is running. Press Ctrl+C to stop.")
    /\ mainpc = "idle" =>
            /\ Logged("MCP Server is running. Press Ctrl+C to stop.")
            /\ exit = Running
    /\ exit.cause = "interrupt" =>
            /\ exit.status = "returned"
            /\ Len(log) > 0
            /\ log[Len(log)] = Stopped
    /\ exit.cause \in {"startup_error", "construct_error"} =>
            /\ Logged("MCP Server error")
            /\ Logged("traceback")

-----------------------------------------------------------------------------
(* Claim about the state written at startup (SpecOps). *)

\* the calls of get_system_info that have returned a SessionInfo
ReturnedInfos == {c \in SysinfoCalls : calls[c].pc = "done"}

\* C11: once the server is constructed no step of any operation changes the
\* dependency flags, the CapabilitySet, the session id or the start time
\* (the flags are not changed by the construction either), whatever calls
\* went before and whatever they installed; and every SessionInfo returned
\* carries the server's CapabilitySet and session id, which by the first part
\* are the ones of the startup.
C11_StartupStateFrozen ==
    /\ [][HAS' = HAS]_vars
    /\ [][capabilities # NoCaps => UNCHANGED server]_vars
    /\ [](\A c \in ReturnedInfos :
            /\ calls[c].results.capabilities = capabilities
            /\ calls[c].results.capabilities = DetectCapabilities(HAS)
            /\ calls[c].results.session_id = session_id
            /\ calls[c].results.start_time = start_time)

\* a SessionInfo returned after numpy was installed by an earlier call, on a
\* server loaded with pandas and without numpy: the flag is still false and
\* data_analysis, which a new detection would find, is still reported false
C11_Witness ==
    /\ ReturnedInfos # {}
    /\ Logged("Successfully installed numpy")
    /\ meta["numpy"] = "installed"
    /\ HAS["PANDAS"] /\ ~HAS["NUMPY"]
    /\ \A c \in ReturnedInfos : ~calls[c].results.capabilities.data_analysis

-----------------------------------------------------------------------------
(* Claim about interleaved calls (SpecConc). *)

\* the call has a child process pending: it awaits the launch or the exit
Suspended(c) == calls[c].pc \in {"spawn", "communicate"}

\* the step the call would take next can be taken
CanProgress(d) ==
    CASE calls[d].op = "idle" ->
            /\ ENABLED CallTool(d, "quality", "a.py")
            /\ ENABLED CallTool(d, "format", "a.py")
            /\ ENABLED CallInstall(d, <<"numpy">>)
      [] calls[d].pc = "spawn" ->
            ENABLED (ToolSpawned(d) \/ InstallSpawned(d))
      [] calls[d].pc = "communicate" ->
            ENABLED (ToolFinished(d) \/ InstallFinished(d))
      [] OTHER -> TRUE

\* a call suspended on its child leaves every other call able to progress
NoBlocking ==
    \A c \in CallIds : Suspended(c) => \A d \in CallIds \ {c} : CanProgress(d)

\* a step changes the record (the result mapping included) of one call only
OwnRecordOnly ==
    \A c \in CallIds :
        calls'[c] # calls[c] => \A d \in CallIds \ {c} : calls'[d] = calls[d]

\* run_code_quality_check / format_code alone: the record with which the
\* call begins
AloneToolStart(call) ==
    LET r0    == Put(Put(EmptyDict, "file", call.arg), SectionOf(call.op),
                     EmptyDict)
        begin == [IdleCall EXCEPT !.op = call.op, !.arg = call.arg,
                                  !.results = r0]
    IN  IF PathMissing(files, call.arg)
        THEN [begin EXCEPT !.pc = "done",
                           !.results = Put(r0, "error", "File not found")]
        ELSE ToolAdvance(begin, 0)

\* alone: the record after the outcome o of the pending child
AloneToolStep(run, o) ==
    LET tool  == ToolsOf(run.op)[run.i]
        entry == IF o.spawn = "ok" THEN ToolEntry(o.child) ELSE [error |-> o.spawn]
    IN  ToolAdvance([run EXCEPT
                        !.results = PutEntry(@, SectionOf(run.op), tool.key, entry),
                        !.hist = Append(@, o)],
                    run.i)

\* alone: the run fed with the outcomes outs from position k on
RECURSIVE AloneTool(_, _, _)
AloneTool(run, outs, k) ==
    IF run.pc = "done" \/ k > Len(outs) THEN run
    ELSE AloneTool(AloneToolStep(run, outs[k]), outs, k + 1)

\* a returned tool call has the result of the same call run alone with the
\* outcomes its children had
ToolResultAsAlone(call) ==
    LET run == AloneTool(AloneToolStart(call), call.hist, 1)
    IN  /\ run.pc = "done"
        /\ run.results = call.results
        /\ run.spawned = call.spawned

\* what install_missing_packages records for a package given what the lookup
\* and the child of history entry h did
OwnOutcome(h) ==
    CASE h.lookup = "ok" -> "already_installed"
      [] h.lookup = "Exception" -> "error: " \o version(meta, h.pkg).value
      [] h.spawn # "ok" -> "error: " \o h.spawn
      [] OTHER -> InstallOutcome(h.child)

RECURSIVE OwnResults(_, _, _)
OwnResults(hist, k, acc) ==
    IF k > Len(hist) THEN acc
    ELSE OwnResults(hist, k + 1, Put(acc, hist[k].pkg, OwnOutcome(hist[k])))

\* a returned install call has the result that its own lookups and its own
\* children give, package by package in the order of its list
InstallResultFromOwn(call) ==
    /\ Len(call.hist) = Len(call.arg)
    /\ \A k \in DOMAIN call.arg : call.hist[k].pkg = call.arg[k]
    /\ call.results = OwnResults(call.hist, 1, EmptyDict)

\* install_missing_packages alone: the results the call can return when it
\* runs from list position k on with metadata m that only its own installers
\* change.  A child has the outcome the call saw for that position; where the
\* call launched none it has any outcome.
RECURSIVE AloneInstall(_, _, _, _)
AloneInstall(call, k, m, acc) ==
    IF k > Len(call.arg) THEN {acc}
    ELSE LET package == call.arg[k]
             v       == version(m, package)
             h       == call.hist[k]
             after(text, m2) ==
                 AloneInstall(call, k + 1, m2, Put(acc, package, text))
             failed(e) == after("error: " \o e, m)
             exited(ch) ==
                 after(InstallOutcome(ch),
                       IF ch.returncode = 0
                       THEN [m EXCEPT ![package] = "installed"] ELSE m)
         IN  CASE v.kind = "ok" -> after("already_installed", m)
               [] v.kind = "PackageNotFoundError" ->
                    IF h.spawn = "none"
                    THEN UNION ({failed(e) : e \in SpawnErrors}
                                \cup {exited(ch) : ch \in ChildResults})
                    ELSE IF h.spawn = "ok" THEN exited(h.child)
                    ELSE failed(h.spawn)
               [] OTHER -> after("error: " \o v.value, m)

\* C12 as stated: no blocking, own record only, and every returned call has
\* the result of the same call run alone with the same tool outcomes, an
\* install call alone being one that starts from the package metadata it
\* found and sees no installer but its own.
C12_AsStated ==
    /\ []NoBlocking
    /\ [][OwnRecordOnly]_vars
    /\ [](\A c \in DoneToolCalls : ToolResultAsAlone(calls[c]))
    /\ [](\A c \in InstallCalls :
            calls[c].pc = "done" =>
                calls[c].results \in AloneInstall(calls[c], 1, calls[c].meta0,
                                                 EmptyDict))

\* C12, amended: a call suspended on its child leaves the other calls able to
\* progress; a step changes one call's record only; a returned tool call has
\* the result of the same call run alone with the same tool outcomes; a
\* returned install call has the result determined by its own version lookups
\* and its own installers' outcomes (the lookups read the shared package
\* metadata, which a concurrent call's installer may have changed).
C12_NoInterference ==
    /\ []NoBlocking
    /\ [][OwnRecordOnly]_vars
    /\ [](\A c \in DoneToolCalls : ToolResultAsAlone(calls[c]))
    /\ [](\A c \in InstallCalls :
            calls[c].pc = "done" => InstallResultFromOwn(calls[c]))

\* two calls that were interleaved: the second caller's call for seaborn and
\* numpy launched the installer of seaborn, the first caller's call installed
\* numpy meanwhile, and the second found numpy already installed although it
\* was absent when that call began
C12_Witness ==
    /\ calls[1].op = "install" /\ calls[1].pc = "done"
    /\ calls[1].results["numpy"] = "installed"
    /\ calls[2].op = "install" /\ calls[2].pc = "done"
    /\ calls[2].arg = <<"seaborn", "numpy">>
    /\ calls[2].meta0["numpy"] = "absent"
    /\ calls[2].hist[1].spawn = "ok"
    /\ calls[2].results["numpy"] = "already_installed"

====
